---- MODULE Spec2Model ----
(***************************************************************************)
(* Model of src/hash_table.py: the tiered open-addressing hash table       *)
(* (SubArray, LastSubArray, OpenAddressHashTable).                         *)
(*                                                                         *)
(* A Python slot is None or a tuple (key, value): here <<>> or <<k, v>>.   *)
(* The Python value None is the value NoneVal, so that "search returned    *)
(* None" and "the stored value is None" are the same thing, as in Python.  *)
(* A raised exception is the return code "ZeroDivisionError"/"ValueError". *)
(*                                                                         *)
(* lastOp is the operation last called and what it returned; expected maps *)
(* a key to the value of its last successful insert (Never if none).       *)
(*                                                                         *)
(* Spec drives a table with a few keys in any order; SpecOrdered fills a   *)
(* table key by key, as the tests do, far enough to overflow its tiers;    *)
(* SpecTier drives a bare SubArray or LastSubArray, as the tier tests do.  *)
(***************************************************************************)
EXTENDS Integers, Sequences, FiniteSets, TLC

\* ------------------------------------------------------------------ bounds
NumKeys == 3
MaxValue == 2

\* A key is known to the table only through hash(key), hash(str(key)) and
\* ==: a key is the pair of these two numbers. The keys explored are the
\* first NumKeys pairs <<0, 0>>, <<0, 1>>, <<1, 0>>, <<1, 1>>, <<2, 0>>, ...
Keys == {<<i \div 2, i % 2>> : i \in 0..(NumKeys - 1)}
Hash(key) == key[1]
HashStr(key) == key[2]
NoneVal == 0
Values == NoneVal..MaxValue
None == <<>>

\* Constructor arguments explored: <<initial_size, delta numerator, delta denominator>>.
Configs ==
  { <<16, 1, 10>>, <<5, 1, 2>>, <<9, 1, 10>>,
    <<1, 1, 10>>, <<4, 3, 2>>, <<16, 0, 1>>, <<16, -1, 2>>,
    <<2, 1, 10>>, <<12, 1, 64>>, <<-1, 1, 2>> }

VARIABLES initial_size, delta, status,
          subarrays, last_array, count, lastOp, expected

vars == <<initial_size, delta, status,
          subarrays, last_array, count, lastOp, expected>>

\* ------------------------------------------------------------- arithmetic
RECURSIVE Pow(_, _)
Pow(b, n) == IF n <= 0 THEN 1 ELSE b * Pow(b, n - 1)

\* Largest n >= 0 with base^n * q <= p, for p >= q > 0: floor(log_base(p/q)).
RECURSIVE FloorLog(_, _, _, _)
FloorLog(p, q, base, n) ==
  IF Pow(base, n + 1) * q <= p THEN FloorLog(p, q, base, n + 1) ELSE n

\* int(math.log2(p/q) / d) for p, q > 0 and d in {1, 3}: int() truncates
\* towards zero, and log2(p/q)/d = log_{2^d}(p/q).
IntLog2Div(p, q, d) ==
  IF p >= q THEN FloorLog(p, q, Pow(2, d), 0)
  ELSE 0 - FloorLog(q, p, Pow(2, d), 0)

\* int(math.log2(math.log2(size + 1) + 1)) for size >= 1:
\* the largest n with 2^(2^n - 1) <= size + 1.
RECURSIVE LogLogFrom(_, _)
LogLogFrom(size, n) ==
  IF Pow(2, Pow(2, n + 1) - 1) <= size + 1 THEN LogLogFrom(size, n + 1) ELSE n

LogLog(size) == LogLogFrom(size, 0)

\* ---------------------------------------------------------------- SubArray
SubArray_init(size) ==
  [size |-> size, table |-> [p \in 0..(size - 1) |-> None], count |-> 0]

\* _hash raises ZeroDivisionError when size - 1 = 0 (size is never 0 here).
SubArray_hash_raises(arr) == arr.size = 0 \/ arr.size - 1 = 0

SubArray_hash(arr, key, attempt) ==
  LET h1 == Hash(key) % arr.size
      h2 == 1 + (HashStr(key) % (arr.size - 1))
  IN  (h1 + attempt * h2) % arr.size

\* SubArray_exists with the update scan left out: insert never finds the key.
SubArray_exists_skipped(arr, key, i, max_probes) == -1

\* SubArray_exists that looks at the first probe position only.
SubArray_exists_first_probe(arr, key, i, max_probes) ==
  IF i >= max_probes THEN -1
  ELSE LET pos == SubArray_hash(arr, key, i) IN
       IF arr.table[pos] # None /\ arr.table[pos][1] = key THEN pos ELSE -1

\* First loop of insert: the position holding key, or -1 (break on None).
RECURSIVE SubArray_exists(_, _, _, _)
SubArray_exists(arr, key, i, max_probes) ==
  IF i >= max_probes THEN -1
  ELSE LET pos == SubArray_hash(arr, key, i) IN
       IF arr.table[pos] = None THEN -1
       ELSE IF arr.table[pos][1] = key THEN pos
       ELSE SubArray_exists(arr, key, i + 1, max_probes)

\* SubArray_empty without the "is None" test: the first probe position.
SubArray_empty_unchecked(arr, key, i, max_probes) ==
  IF i >= max_probes THEN -1 ELSE SubArray_hash(arr, key, i)

\* SubArray_empty that takes the last empty probe position, not the first.
SubArray_empty_from_end(arr, key, i, max_probes) ==
  LET empties == {a \in i..(max_probes - 1) :
                    arr.table[SubArray_hash(arr, key, a)] = None}
  IN  IF empties = {} THEN -1
      ELSE SubArray_hash(arr, key,
                         CHOOSE a \in empties : \A a2 \in empties : a2 <= a)

\* Second loop of insert: the first empty probe position, or -1.
RECURSIVE SubArray_empty(_, _, _, _)
SubArray_empty(arr, key, i, max_probes) ==
  IF i >= max_probes THEN -1
  ELSE LET pos == SubArray_hash(arr, key, i) IN
       IF arr.table[pos] = None THEN pos
       ELSE SubArray_empty(arr, key, i + 1, max_probes)

SubArray_insert(arr, key, value, max_probes) ==
  IF max_probes >= 1 /\ SubArray_hash_raises(arr)
  THEN [ret |-> "ZeroDivisionError", arr |-> arr]
  ELSE LET found == SubArray_exists(arr, key, 0, max_probes)
           empty == SubArray_empty(arr, key, 0, max_probes)
       IN  IF found >= 0
           THEN [ret |-> "True",
                 arr |-> [arr EXCEPT !.table[found] = <<key, value>>]]
           ELSE IF empty >= 0
           THEN [ret |-> "True",
                 arr |-> [arr EXCEPT !.table[empty] = <<key, value>>,
                                     !.count = @ + 1]]
           ELSE [ret |-> "False", arr |-> arr]

\* SubArray_scan that looks at the first probe position only.
SubArray_scan_one_probe(arr, key, i) ==
  LET pos == SubArray_hash(arr, key, i) IN
  IF arr.table[pos] # None /\ arr.table[pos][1] = key
  THEN arr.table[pos][2] ELSE NoneVal

\* The loop of search: the value found, or None.
RECURSIVE SubArray_scan(_, _, _)
SubArray_scan(arr, key, i) ==
  IF i >= arr.size THEN NoneVal
  ELSE LET pos == SubArray_hash(arr, key, i) IN
       IF arr.table[pos] = None THEN NoneVal
       ELSE IF arr.table[pos][1] = key THEN arr.table[pos][2]
       ELSE SubArray_scan(arr, key, i + 1)

\* search: [ret |-> "ok", val |-> v] or a raise.
SubArray_search(arr, key) ==
  IF arr.size >= 1 /\ SubArray_hash_raises(arr)
  THEN [ret |-> "ZeroDivisionError", val |-> NoneVal]
  ELSE [ret |-> "ok", val |-> SubArray_scan(arr, key, 0)]

\* ------------------------------------------------------------ LastSubArray
LastSubArray_init(size) ==
  LET b_size == size \div 2
      c_size == size - b_size
      bucket_size == 2 * LogLog(size)
      num_buckets == (c_size + bucket_size - 1) \div bucket_size
  IN  [size |-> size, b_size |-> b_size, c_size |-> c_size,
       bucket_size |-> bucket_size,
       b |-> [p \in 0..(b_size - 1) |-> None],
       c |-> [n \in 0..(num_buckets - 1) |->
                [p \in 0..(bucket_size - 1) |-> None]],
       count |-> 0]

NumBuckets(la) == Cardinality(DOMAIN la.c)

\* max_attempts = int(math.log2(math.log2(self._size + 1) + 1))
MaxAttempts(la) == LogLog(la.size)

\* _hash_b raises ZeroDivisionError when b_size = 0 or b_size - 1 = 0.
hash_b_raises(la) == la.b_size = 0 \/ la.b_size - 1 = 0

hash_b(la, key, attempt) ==
  LET h1 == Hash(key) % la.b_size
      h2 == 1 + (HashStr(key) % (la.b_size - 1))
  IN  (h1 + attempt * h2) % la.b_size

\* _hash_c raises ZeroDivisionError when num_buckets - 1 = 0.
hash_c_raises(la) == NumBuckets(la) = 0 \/ NumBuckets(la) - 1 = 0

hash_c(la, key) ==
  LET num_buckets == NumBuckets(la)
      h1 == Hash(key) % num_buckets
      h2 == (h1 + 1 + (HashStr(key) % (num_buckets - 1))) % num_buckets
  IN  <<h1, h2>>

\* insert, first loop: full scan of the max_attempts positions of B.
RECURSIVE LastB_exists(_, _, _)
LastB_exists(la, key, i) ==
  IF i >= MaxAttempts(la) THEN -1
  ELSE LET pos == hash_b(la, key, i) IN
       IF la.b[pos] # None /\ la.b[pos][1] = key THEN pos
       ELSE LastB_exists(la, key, i + 1)

\* First index of a bucket holding key, or -1.
RECURSIVE Bucket_find(_, _, _, _)
Bucket_find(bucket, key, i, n) ==
  IF i >= n THEN -1
  ELSE IF bucket[i] # None /\ bucket[i][1] = key THEN i
  ELSE Bucket_find(bucket, key, i + 1, n)

\* First empty index of a bucket, or -1.
RECURSIVE Bucket_empty(_, _, _)
Bucket_empty(bucket, i, n) ==
  IF i >= n THEN -1
  ELSE IF bucket[i] = None THEN i
  ELSE Bucket_empty(bucket, i + 1, n)

\* insert, third loop: first empty probe position of B, or -1.
RECURSIVE LastB_empty(_, _, _)
LastB_empty(la, key, i) ==
  IF i >= MaxAttempts(la) THEN -1
  ELSE LET pos == hash_b(la, key, i) IN
       IF la.b[pos] = None THEN pos
       ELSE LastB_empty(la, key, i + 1)

EmptyCount(bucket) == Cardinality({i \in DOMAIN bucket : bucket[i] = None})

\* TargetBucket with ties resolved to the second candidate (> for >=).
TargetBucket_strict(la, key) ==
  LET bs == hash_c(la, key) IN
  IF EmptyCount(la.c[bs[1]]) > EmptyCount(la.c[bs[2]]) THEN bs[1] ELSE bs[2]

\* The bucket chosen for a new entry: bucket1 if empty1 >= empty2 else bucket2.
TargetBucket(la, key) ==
  LET bs == hash_c(la, key) IN
  IF EmptyCount(la.c[bs[1]]) >= EmptyCount(la.c[bs[2]]) THEN bs[1] ELSE bs[2]

LastSubArray_insert(la, key, value) ==
  IF MaxAttempts(la) >= 1 /\ hash_b_raises(la)
  THEN [ret |-> "ZeroDivisionError", la |-> la]
  ELSE
  LET inB == LastB_exists(la, key, 0) IN
  IF inB >= 0
  THEN [ret |-> "True", la |-> [la EXCEPT !.b[inB] = <<key, value>>]]
  ELSE IF hash_c_raises(la)
  THEN [ret |-> "ZeroDivisionError", la |-> la]
  ELSE
  LET bs == hash_c(la, key)
      in1 == Bucket_find(la.c[bs[1]], key, 0, la.bucket_size)
      in2 == Bucket_find(la.c[bs[2]], key, 0, la.bucket_size)
      emptyB == LastB_empty(la, key, 0)
      target == TargetBucket(la, key)
      slot == Bucket_empty(la.c[target], 0, la.bucket_size)
  IN  IF in1 >= 0
      THEN [ret |-> "True", la |-> [la EXCEPT !.c[bs[1]][in1] = <<key, value>>]]
      ELSE IF in2 >= 0
      THEN [ret |-> "True", la |-> [la EXCEPT !.c[bs[2]][in2] = <<key, value>>]]
      ELSE IF emptyB >= 0
      THEN [ret |-> "True", la |-> [la EXCEPT !.b[emptyB] = <<key, value>>,
                                              !.count = @ + 1]]
      ELSE IF slot >= 0
      THEN [ret |-> "True", la |-> [la EXCEPT !.c[target][slot] = <<key, value>>,
                                              !.count = @ + 1]]
      ELSE [ret |-> "False", la |-> la]

\* search, part B: -1 when the loop ends or breaks without a match.
RECURSIVE LastB_scan(_, _, _)
LastB_scan(la, key, i) ==
  IF i >= MaxAttempts(la) THEN -1
  ELSE LET pos == hash_b(la, key, i) IN
       IF la.b[pos] = None THEN -1
       ELSE IF la.b[pos][1] = key THEN pos
       ELSE LastB_scan(la, key, i + 1)

LastSubArray_search(la, key) ==
  IF MaxAttempts(la) >= 1 /\ hash_b_raises(la)
  THEN [ret |-> "ZeroDivisionError", val |-> NoneVal]
  ELSE
  LET inB == LastB_scan(la, key, 0) IN
  IF inB >= 0
  THEN [ret |-> "ok", val |-> la.b[inB][2]]
  ELSE IF hash_c_raises(la)
  THEN [ret |-> "ZeroDivisionError", val |-> NoneVal]
  ELSE
  LET bs == hash_c(la, key)
      in1 == Bucket_find(la.c[bs[1]], key, 0, la.bucket_size)
      in2 == Bucket_find(la.c[bs[2]], key, 0, la.bucket_size)
  IN  IF in1 >= 0 THEN [ret |-> "ok", val |-> la.c[bs[1]][in1][2]]
      ELSE IF in2 >= 0 THEN [ret |-> "ok", val |-> la.c[bs[2]][in2][2]]
      ELSE [ret |-> "ok", val |-> NoneVal]

\* ---------------------------------------------------- OpenAddressHashTable
\* self._alpha = int(math.log2(1/delta) / 3)
Alpha(d) == IntLog2Div(d.den, d.num, 3)

\* max_probes = int(math.log2(1/self._delta))
MaxProbes(d) == IntLog2Div(d.den, d.num, 1)

\* The loop of __init__ that appends SubArray(current_size // 2**i).
RECURSIVE MakeSubarrays(_, _, _)
MakeSubarrays(current_size, i, alpha) ==
  IF i >= alpha THEN <<>>
  ELSE LET size == current_size \div Pow(2, i) IN
       IF size < 1 THEN <<>>
       ELSE <<SubArray_init(size)>> \o MakeSubarrays(current_size, i + 1, alpha)

RECURSIVE SumSizes(_, _)
SumSizes(subs, j) ==
  IF j > Len(subs) THEN 0 ELSE subs[j].size + SumSizes(subs, j + 1)

\* What __init__ raises: 1/delta for delta = 0, math.log2 for delta < 0.
InitStatus(size, d) ==
  IF d.num = 0 THEN "ZeroDivisionError"
  ELSE IF d.num < 0 THEN "ValueError"
  ELSE "ok"

InitSubarrays(size, d) ==
  IF InitStatus(size, d) # "ok" THEN <<>>
  ELSE MakeSubarrays(size \div 2, 0, Alpha(d))

\* self._last_array: <<>> stands for None, <<la>> for a LastSubArray.
InitLastArray(size, d) ==
  LET last_size == size - SumSizes(InitSubarrays(size, d), 1) IN
  IF InitStatus(size, d) = "ok" /\ last_size > 0
  THEN <<LastSubArray_init(last_size)>> ELSE <<>>

\* current_load >= 0.9, with current_load = self._count / self._size.
LoadAtLeast09 ==
  IF initial_size > 0 THEN 10 * count >= 9 * initial_size
  ELSE 10 * count <= 9 * initial_size

\* Existence check over the subarrays: the first j whose search is not None.
RECURSIVE FirstHit(_, _)
FirstHit(key, j) ==
  IF j > Len(subarrays) THEN [kind |-> "none", idx |-> 0]
  ELSE LET r == SubArray_search(subarrays[j], key) IN
       IF r.ret # "ok" THEN [kind |-> r.ret, idx |-> j]
       ELSE IF r.val # NoneVal THEN [kind |-> "hit", idx |-> j]
       ELSE FirstHit(key, j + 1)

\* Place that tries no subarray at all: every new key goes to the last array.
Place_no_subarray(key, value, j) ==
  [ret |-> "False", subarrays |-> subarrays]

\* Placement over the subarrays in order: the first j whose insert succeeds.
RECURSIVE Place(_, _, _)
Place(key, value, j) ==
  IF j > Len(subarrays) THEN [ret |-> "False", subarrays |-> subarrays]
  ELSE LET r == SubArray_insert(subarrays[j], key, value, MaxProbes(delta)) IN
       IF r.ret = "True"
       THEN [ret |-> "True", subarrays |-> [subarrays EXCEPT ![j] = r.arr]]
       ELSE IF r.ret # "False"
       THEN [ret |-> r.ret, subarrays |-> subarrays]
       ELSE Place(key, value, j + 1)

Result(ret, subs, la, cnt) ==
  [ret |-> ret, subarrays |-> subs, last_array |-> la, count |-> cnt]

\* insert_new that counts the key before it is placed (and so also when
\* no subarray takes it).
insert_new_counts_first(key, value) ==
  IF LoadAtLeast09
  THEN Result("False", subarrays, last_array, count)
  ELSE LET p == Place(key, value, 1) IN
       IF p.ret = "True"
       THEN Result("True", p.subarrays, last_array, count + 1)
       ELSE Result("False", subarrays, last_array, count + 1)

\* The part of insert after the existence check found nothing.
insert_new(key, value) ==
  IF initial_size = 0
  THEN Result("ZeroDivisionError", subarrays, last_array, count)
  ELSE IF LoadAtLeast09
  THEN Result("False", subarrays, last_array, count)
  ELSE
  LET p == Place(key, value, 1) IN
  IF p.ret = "True"
  THEN Result("True", p.subarrays, last_array, count + 1)
  ELSE IF p.ret # "False"
  THEN Result(p.ret, subarrays, last_array, count)
  ELSE IF last_array = <<>>
  THEN Result("False", subarrays, last_array, count)
  ELSE
  LET r == LastSubArray_insert(last_array[1], key, value) IN
  IF r.ret = "True"
  THEN Result("True", subarrays, <<r.la>>, count + 1)
  ELSE Result(r.ret, subarrays, last_array, count)

insert(key, value) ==
  LET h == FirstHit(key, 1) IN
  IF h.kind = "hit"
  THEN LET r == SubArray_insert(subarrays[h.idx], key, value, MaxProbes(delta))
       IN  Result(r.ret, [subarrays EXCEPT ![h.idx] = r.arr], last_array, count)
  ELSE IF h.kind # "none"
  THEN Result(h.kind, subarrays, last_array, count)
  ELSE IF last_array = <<>>
  THEN insert_new(key, value)
  ELSE
  LET s == LastSubArray_search(last_array[1], key) IN
  IF s.ret # "ok"
  THEN Result(s.ret, subarrays, last_array, count)
  ELSE IF s.val # NoneVal
  THEN LET r == LastSubArray_insert(last_array[1], key, value)
       IN  Result(r.ret, subarrays, <<r.la>>, count)
  ELSE insert_new(key, value)

search(key) ==
  LET h == FirstHit(key, 1) IN
  IF h.kind = "hit"
  THEN SubArray_search(subarrays[h.idx], key)
  ELSE IF h.kind # "none"
  THEN [ret |-> h.kind, val |-> NoneVal]
  ELSE IF last_array # <<>>
  THEN LastSubArray_search(last_array[1], key)
  ELSE [ret |-> "ok", val |-> NoneVal]

\* ------------------------------------------------------------ state machine
Never == -1

Init ==
  /\ \E cfg \in Configs :
       /\ initial_size = cfg[1]
       /\ delta = [num |-> cfg[2], den |-> cfg[3]]
  /\ status = InitStatus(initial_size, delta)
  /\ subarrays = InitSubarrays(initial_size, delta)
  /\ last_array = InitLastArray(initial_size, delta)
  /\ count = 0
  /\ lastOp = [op |-> "init", ret |-> status, val |-> NoneVal]
  /\ expected = [k \in Keys |-> Never]

Insert(key, value) ==
  /\ status = "ok"
  /\ LET r == insert(key, value) IN
       /\ subarrays' = r.subarrays
       /\ last_array' = r.last_array
       /\ count' = r.count
       /\ lastOp' = [op |-> "insert", ret |-> r.ret, val |-> NoneVal]
       /\ expected' = IF r.ret = "True"
                      THEN [expected EXCEPT ![key] = value] ELSE expected
  /\ UNCHANGED <<initial_size, delta, status>>

Search(key) ==
  /\ status = "ok"
  /\ LET r == search(key) IN
       lastOp' = [op |-> "search", ret |-> r.ret, val |-> r.val]
  /\ UNCHANGED <<initial_size, delta, status,
                 subarrays, last_array, count, expected>>

InsertOp == \E key \in Keys, value \in Values : Insert(key, value)
SearchOp == \E key \in Keys : Search(key)

Next == InsertOp \/ SearchOp

Spec == Init /\ [][Next]_vars

TypeOK ==
  /\ status \in {"ok", "ZeroDivisionError", "ValueError"}
  /\ count \in Nat
  /\ lastOp.ret \in {"ok", "True", "False", "ZeroDivisionError", "ValueError"}

\* ------------------------------------------------- observations on a table
\* Every physical slot: <<"sub", j, p>> is _subarrays[j]._table[p],
\* <<"b", 0, p>> is _last_array._b[p], <<"c", n, p>> is _last_array._c[n][p].
SlotIds(subs, la) ==
  UNION {{<<"sub", j, p>> : p \in DOMAIN subs[j].table} : j \in 1..Len(subs)}
  \cup (IF la = <<>> THEN {}
        ELSE {<<"b", 0, p>> : p \in DOMAIN la[1].b}
             \cup UNION {{<<"c", n, p>> : p \in DOMAIN la[1].c[n]} :
                         n \in DOMAIN la[1].c})

SlotAt(subs, la, id) ==
  IF id[1] = "sub" THEN subs[id[2]].table[id[3]]
  ELSE IF id[1] = "b" THEN la[1].b[id[3]]
  ELSE la[1].c[id[2]][id[3]]

Occupied(subs, la) == {id \in SlotIds(subs, la) : SlotAt(subs, la, id) # None}

SlotsOf(key) ==
  {id \in Occupied(subarrays, last_array) :
     SlotAt(subarrays, last_array, id)[1] = key}

StoredKeys == {key \in Keys : SlotsOf(key) # {}}

TierCounts(subs, la) ==
  <<[j \in 1..Len(subs) |-> subs[j].count],
    IF la = <<>> THEN 0 ELSE la[1].count>>

RECURSIVE SumCounts(_, _)
SumCounts(subs, j) ==
  IF j > Len(subs) THEN 0 ELSE subs[j].count + SumCounts(subs, j + 1)

TierCountSum ==
  SumCounts(subarrays, 1) + (IF last_array = <<>> THEN 0 ELSE last_array[1].count)

\* The constructor arguments the interface allows.
ValidParams ==
  /\ initial_size >= 2
  /\ 0 < delta.num
  /\ delta.num < delta.den

InsertedKeys == {key \in Keys : expected[key] # Never}

\* ------------------------------------------------------------------ claims

\* C1: once insert(k, v) has returned success, search(k) returns v in every
\* later state, whatever inserts and searches of other keys (and failed
\* inserts of k) came in between, until a successful insert(k, v2).
RoundTrip ==
  \A key \in Keys :
    expected[key] # Never =>
      search(key) = [ret |-> "ok", val |-> expected[key]]

\* A key that sits in a uniform tier behind a collision (not at its first
\* probe position), two other keys inserted, and a search that has just
\* returned the key's value.
RoundTripWitness ==
  /\ Cardinality(InsertedKeys) >= 3
  /\ \E k1 \in Keys :
       /\ expected[k1] \notin {Never, NoneVal}
       /\ \E id \in SlotsOf(k1) :
            /\ id[1] = "sub"
            /\ id[3] # SubArray_hash(subarrays[id[2]], k1, 0)
       /\ lastOp = [op |-> "search", ret |-> "ok", val |-> expected[k1]]

\* C2: on a table built from allowed arguments, search of a key that was
\* never successfully inserted returns None.
NeverInsertedAbsent ==
  (ValidParams /\ status = "ok") =>
    \A key \in Keys :
      expected[key] = Never => search(key) = [ret |-> "ok", val |-> NoneVal]

\* C3: on a table built with initial_size >= 2 and delta in (0,1) no
\* operation raises: insert returns True/False, search returns a value/None.
NoOperationRaises ==
  ValidParams => lastOp.ret \in {"ok", "True", "False"}

\* C4: each key occupies at most one slot over all subarrays, part B and
\* the buckets of part C.
KeyUniqueness ==
  \A key \in Keys : Cardinality(SlotsOf(key)) <= 1

\* Three keys stored, one in part B and one in a bucket, after a successful
\* insert.
KeyUniquenessWitness ==
  /\ lastOp.op = "insert" /\ lastOp.ret = "True"
  /\ \E k1, k2 \in StoredKeys :
       /\ k1 # k2
       /\ \E id \in SlotsOf(k1) : id[1] = "b"
       /\ \E id \in SlotsOf(k2) : id[1] = "c"
  /\ Cardinality(StoredKeys) >= 3

\* C5: an occupied slot keeps its key in every step; its value changes only
\* by an insert of that same key.
NoReordering ==
  [][\A id \in SlotIds(subarrays, last_array) :
       LET old == SlotAt(subarrays, last_array, id)
           new == SlotAt(subarrays', last_array', id)
       IN  old # None =>
             /\ new # None
             /\ new[1] = old[1]
             /\ new # old => \E value \in Values :
                               /\ Insert(old[1], value)
                               /\ new = <<old[1], value>>]_vars

\* Three occupied slots, among them one of part B and one of a bucket, and
\* an insert that has just been refused.
NoReorderingWitness ==
  /\ Cardinality(Occupied(subarrays, last_array)) >= 3
  /\ \E id \in Occupied(subarrays, last_array) : id[1] = "b"
  /\ \E id \in Occupied(subarrays, last_array) : id[1] = "c"
  /\ lastOp = [op |-> "insert", ret |-> "False", val |-> NoneVal]

\* C6: on a table built with initial_size >= 2 and delta in (0,1) the load
\* factor _count / _size is below 1.
LoadFactorBelowOne ==
  (ValidParams /\ status = "ok") => count < initial_size

\* C7: with load factor >= 0.9, insert of a key that is not stored returns
\* False, and insert of a stored key returns True and overwrites its value.
HighWaterMark ==
  (ValidParams /\ status = "ok" /\ LoadAtLeast09) =>
    \A key \in Keys, value \in Values :
      LET r == insert(key, value) IN
      IF key \in StoredKeys
      THEN /\ r.ret = "True"
           /\ \A id \in SlotsOf(key) :
                SlotAt(r.subarrays, r.last_array, id) = <<key, value>>
      ELSE r.ret = "False"

\* C8: insert(k, v2) of a stored key returns True, leaves <<k, v2>> in the
\* key's slot, and changes neither _count, nor a tier's _count, nor any
\* other slot.
Overwrite ==
  (ValidParams /\ status = "ok") =>
    \A key \in StoredKeys, value \in Values :
      LET r == insert(key, value) IN
      /\ r.ret = "True"
      /\ r.count = count
      /\ TierCounts(r.subarrays, r.last_array) = TierCounts(subarrays, last_array)
      /\ \A id \in SlotIds(subarrays, last_array) :
           SlotAt(r.subarrays, r.last_array, id) =
             IF id \in SlotsOf(key) THEN <<key, value>>
             ELSE SlotAt(subarrays, last_array, id)

\* C9: _count equals the sum of the tiers' _count, the number of occupied
\* slots, and the number of distinct keys whose insert has succeeded.
CountAccuracy ==
  (ValidParams /\ status = "ok") =>
    /\ count = TierCountSum
    /\ count = Cardinality(Occupied(subarrays, last_array))
    /\ count = Cardinality(InsertedKeys)

\* C10: construction with initial_size < 2 or delta outside (0,1) raises;
\* no table is produced.
ConstructionRejectsInvalid ==
  ~ValidParams => status # "ok"

\* C11: for every constructed table, the declared sizes of the subarrays
\* plus the size of the last array (if there is one) add up to exactly the
\* initial_size the table was constructed with.
CapacityConservation ==
  status = "ok" =>
    SumSizes(subarrays, 1)
      + (IF last_array = <<>> THEN 0 ELSE last_array[1].size) = initial_size

\* --------------------------------------------------- tiers driven directly
\* TestSubArray and TestLastSubArray call the tiers without a table around
\* them.  A state of this specification holds one bare tier: a SubArray in
\* subarrays[1] (last_array is None) or a LastSubArray in last_array[1]
\* (subarrays is empty); initial_size is the tier's size, count stays 0.
MaxSubArraySize == 4
MaxProbesArg == 5
NumLastKeys == 7

\* Sizes of the bare LastSubArray: 5, 6 and 9 work, 8 has a single bucket.
LastSizes == {5, 6, 8, 9}

LastKeys == {<<i \div 2, i % 2>> : i \in 0..(NumLastKeys - 1)}
KeyIndex(key) == 2 * key[1] + key[2]

\* Values passed to a bare tier: None and one other value.
TierValues == {NoneVal, MaxValue}

\* The keys of a bare LastSubArray arrive in index order, as key0, key1, ...
\* do in test_insert_and_search_c; a key that has arrived may come again.
Arrives(key) ==
  \A k2 \in DOMAIN expected :
    KeyIndex(k2) < KeyIndex(key) => expected[k2] # Never

TierInit ==
  /\ \/ \E size \in 1..MaxSubArraySize :
          /\ initial_size = size
          /\ subarrays = <<SubArray_init(size)>>
          /\ last_array = <<>>
          /\ expected = [k \in Keys |-> Never]
     \/ \E size \in LastSizes :
          /\ initial_size = size
          /\ subarrays = <<>>
          /\ last_array = <<LastSubArray_init(size)>>
          /\ expected = [k \in LastKeys |-> Never]
  /\ delta = [num |-> 1, den |-> 2]
  /\ status = "ok"
  /\ count = 0
  /\ lastOp = [op |-> "init", ret |-> "ok", val |-> NoneVal]

SubArrayInsert(key, value, max_probes) ==
  /\ subarrays # <<>>
  /\ LET r == SubArray_insert(subarrays[1], key, value, max_probes) IN
       /\ subarrays' = <<r.arr>>
       /\ lastOp' = [op |-> "insert", ret |-> r.ret, val |-> NoneVal]
       /\ expected' = IF r.ret = "True"
                      THEN [expected EXCEPT ![key] = value] ELSE expected
  /\ UNCHANGED <<initial_size, delta, status, last_array, count>>

SubArraySearch(key) ==
  /\ subarrays # <<>>
  /\ LET r == SubArray_search(subarrays[1], key) IN
       lastOp' = [op |-> "search", ret |-> r.ret, val |-> r.val]
  /\ UNCHANGED <<initial_size, delta, status,
                 subarrays, last_array, count, expected>>

LastSubArrayInsert(key, value) ==
  /\ last_array # <<>>
  /\ Arrives(key)
  /\ LET r == LastSubArray_insert(last_array[1], key, value) IN
       /\ last_array' = <<r.la>>
       /\ lastOp' = [op |-> "insert", ret |-> r.ret, val |-> NoneVal]
       /\ expected' = IF r.ret = "True"
                      THEN [expected EXCEPT ![key] = value] ELSE expected
  /\ UNCHANGED <<initial_size, delta, status, subarrays, count>>

LastSubArraySearch(key) ==
  /\ last_array # <<>>
  /\ LET r == LastSubArray_search(last_array[1], key) IN
       lastOp' = [op |-> "search", ret |-> r.ret, val |-> r.val]
  /\ UNCHANGED <<initial_size, delta, status,
                 subarrays, last_array, count, expected>>

SubArrayInsertOp ==
  \E key \in Keys, value \in TierValues, max_probes \in 0..MaxProbesArg :
    SubArrayInsert(key, value, max_probes)
SubArraySearchOp == \E key \in Keys : SubArraySearch(key)
LastSubArrayInsertOp ==
  \E key \in LastKeys, value \in TierValues : LastSubArrayInsert(key, value)
LastSubArraySearchOp == \E key \in LastKeys : LastSubArraySearch(key)

TierNext ==
  \/ SubArrayInsertOp
  \/ SubArraySearchOp
  \/ LastSubArrayInsertOp
  \/ LastSubArraySearchOp

SpecTier == TierInit /\ [][TierNext]_vars

\* A step of a LastSubArray that fills a slot of part C: the bucket is one of
\* the new key's two candidates, it had at least as many empty slots as the
\* other candidate, the first candidate on a tie, and the slot is the first
\* empty one of the bucket.
TwoChoiceStep ==
  (last_array # <<>> /\ last_array' # <<>>) =>
    LET la == last_array[1]
        after == last_array'[1]
    IN  \A n \in DOMAIN la.c : \A p \in DOMAIN la.c[n] :
          (la.c[n][p] = None /\ after.c[n][p] # None) =>
            LET key == after.c[n][p][1]
                bs == hash_c(la, key)
                other == IF n = bs[1] THEN bs[2] ELSE bs[1]
            IN  /\ n \in {bs[1], bs[2]}
                /\ EmptyCount(la.c[n]) >= EmptyCount(la.c[other])
                /\ EmptyCount(la.c[n]) = EmptyCount(la.c[other]) => n = bs[1]
                /\ \A q \in 0..(p - 1) : la.c[n][q] # None

\* C12: whenever a LastSubArray insert places a new entry in part C, the
\* bucket it lands in had an empty-slot count >= that of the key's other
\* candidate bucket, equal counts go to the first candidate b1, and the entry
\* takes the first empty slot of that bucket.
TwoChoice == [][TwoChoiceStep]_vars

\* The buckets of part C that hold key.
BucketsOf(la, key) ==
  {n \in DOMAIN la.c : \E p \in DOMAIN la.c[n] :
     la.c[n][p] # None /\ la.c[n][p][1] = key}

\* A LastSubArray after a successful insert in which one key sits in its
\* second candidate bucket (the first had fewer empty slots), another in its
\* first candidate behind an earlier entry of that bucket.
TwoChoiceWitness ==
  /\ last_array # <<>>
  /\ ~hash_c_raises(last_array[1])
  /\ lastOp.op = "insert" /\ lastOp.ret = "True"
  /\ LET la == last_array[1] IN
     /\ \E key \in DOMAIN expected :
          BucketsOf(la, key) = {hash_c(la, key)[2]}
     /\ \E key \in DOMAIN expected :
          /\ BucketsOf(la, key) = {hash_c(la, key)[1]}
          /\ la.c[hash_c(la, key)[1]][0][1] # key

\* ------------------------------------------------ tables filled key by key
\* The tests fill a table with key0, key1, ... in index order.  Here a table
\* is filled that way with one of two families of keys: keys that all share
\* the probe positions of every tier, and keys spread over the hash values.
NumOrderedKeys == 6

CollidingKeys == {<<24 * i, 10>> : i \in 0..(NumOrderedKeys - 1)}
SpreadKeys == {<<i \div 2, i % 2>> : i \in 0..(NumOrderedKeys - 1)}

\* A last array of 6 alone; one subarray (4) and a last array of 5; two
\* subarrays (8, 4) and a last array of 5.
OrderedConfigs == { <<6, 1, 2>>, <<9, 1, 10>>, <<17, 1, 64>> }

OrderedInit ==
  /\ \E cfg \in OrderedConfigs :
       /\ initial_size = cfg[1]
       /\ delta = [num |-> cfg[2], den |-> cfg[3]]
  /\ status = InitStatus(initial_size, delta)
  /\ subarrays = InitSubarrays(initial_size, delta)
  /\ last_array = InitLastArray(initial_size, delta)
  /\ count = 0
  /\ lastOp = [op |-> "init", ret |-> status, val |-> NoneVal]
  /\ \E keys \in {CollidingKeys, SpreadKeys} :
       expected = [k \in keys |-> Never]

OrderedInsert(key, value) ==
  /\ key \in DOMAIN expected
  /\ Arrives(key)
  /\ Insert(key, value)

OrderedSearch(key) ==
  /\ key \in DOMAIN expected
  /\ Search(key)

OrderedInsertOp ==
  \E key \in CollidingKeys \cup SpreadKeys, value \in TierValues :
    OrderedInsert(key, value)
OrderedSearchOp ==
  \E key \in CollidingKeys \cup SpreadKeys : OrderedSearch(key)

OrderedNext == OrderedInsertOp \/ OrderedSearchOp

SpecOrdered == OrderedInit /\ [][OrderedNext]_vars

\* Every one of the first MaxProbes(delta) probe positions of key in
\* subarray j is occupied.
ProbesOccupied(j, key) ==
  \A attempt \in 0..(MaxProbes(delta) - 1) :
    subarrays[j].table[SubArray_hash(subarrays[j], key, attempt)] # None

\* Every one of the max_attempts probe positions of key in part B is occupied.
ProbesOccupiedB(key) ==
  \A attempt \in 0..(MaxAttempts(last_array[1]) - 1) :
    last_array[1].b[hash_b(last_array[1], key, attempt)] # None

\* C13: in every reachable state a key stored in subarray j has its first
\* max_probes probe positions occupied in every earlier subarray, a key
\* stored in the last array has them occupied in every subarray, and a key
\* stored in a bucket of part C also has all its max_attempts probe positions
\* of part B occupied.
FirstFit ==
  \A id \in Occupied(subarrays, last_array) :
    LET key == SlotAt(subarrays, last_array, id)[1] IN
    /\ id[1] = "sub" => \A j \in 1..(id[2] - 1) : ProbesOccupied(j, key)
    /\ id[1] # "sub" => \A j \in 1..Len(subarrays) : ProbesOccupied(j, key)
    /\ id[1] = "c" => ProbesOccupiedB(key)

\* A table with two subarrays that holds keys in the second subarray, in
\* part B and in a bucket of part C, the last insert having succeeded.
FirstFitWitness ==
  /\ Len(subarrays) >= 2
  /\ lastOp.op = "insert" /\ lastOp.ret = "True"
  /\ \E id \in Occupied(subarrays, last_array) : id[1] = "sub" /\ id[2] = 2
  /\ \E id \in Occupied(subarrays, last_array) : id[1] = "b"
  /\ \E id \in Occupied(subarrays, last_array) : id[1] = "c"

\* The attempts of key's probe sequence in a SubArray that give position pos.
AttemptsAt(arr, key, pos) ==
  {a \in 0..(arr.size - 1) : SubArray_hash(arr, key, a) = pos}

\* The attempts of key's probe sequence in part B that give position pos.
AttemptsAtB(la, key, pos) ==
  {a \in 0..(MaxAttempts(la) - 1) : hash_b(la, key, a) = pos}

Least(S) == CHOOSE a \in S : \A a2 \in S : a <= a2

\* An entry of a SubArray sits at an attempt below size of its key's probe
\* sequence, every earlier attempt hits an occupied slot, and search
\* returns the entry's value.
ChainSubArray(arr) ==
  \A pos \in DOMAIN arr.table :
    arr.table[pos] # None =>
      LET key == arr.table[pos][1]
          at == AttemptsAt(arr, key, pos)
      IN  /\ at # {}
          /\ \A a \in 0..(Least(at) - 1) :
               arr.table[SubArray_hash(arr, key, a)] # None
          /\ SubArray_search(arr, key) =
               [ret |-> "ok", val |-> arr.table[pos][2]]

\* The same for part B of a LastSubArray; an entry of part C is found by
\* search as well.
ChainLastSubArray(la) ==
  /\ \A pos \in DOMAIN la.b :
       la.b[pos] # None =>
         LET key == la.b[pos][1]
             at == AttemptsAtB(la, key, pos)
         IN  /\ at # {}
             /\ \A a \in 0..(Least(at) - 1) : la.b[hash_b(la, key, a)] # None
             /\ LastSubArray_search(la, key) =
                  [ret |-> "ok", val |-> la.b[pos][2]]
  /\ \A n \in DOMAIN la.c : \A p \in DOMAIN la.c[n] :
       la.c[n][p] # None =>
         LastSubArray_search(la, la.c[n][p][1]) =
           [ret |-> "ok", val |-> la.c[n][p][2]]

\* C14: in every reachable state a key stored at attempt i of its probe
\* sequence, in a SubArray or in part B of a LastSubArray, has occupied
\* slots at attempts 0..i-1, so the tier's search, which stops at the first
\* empty slot, finds every key stored in the tier; also when the step h2
\* shares a factor with the size and when max_probes exceeds the size.
ProbeChain ==
  /\ \A j \in 1..Len(subarrays) : ChainSubArray(subarrays[j])
  /\ last_array # <<>> => ChainLastSubArray(last_array[1])

\* A SubArray of size 4 where a key with step 2 (a divisor of 4) sits at a
\* later probe position than its first and a search for it has just
\* returned its value.
ProbeChainWitness ==
  /\ subarrays # <<>>
  /\ subarrays[1].size = 4
  /\ \E pos \in DOMAIN subarrays[1].table :
       /\ subarrays[1].table[pos] # None
       /\ LET key == subarrays[1].table[pos][1] IN
          /\ 1 + (HashStr(key) % 3) = 2
          /\ Least(AttemptsAt(subarrays[1], key, pos)) >= 1
          /\ subarrays[1].table[pos][2] # NoneVal
          /\ lastOp = [op |-> "search", ret |-> "ok",
                       val |-> subarrays[1].table[pos][2]]

OccupiedIn(table) == {p \in DOMAIN table : table[p] # None}

OccupiedInC(la) ==
  {<<n, p>> \in (DOMAIN la.c) \X (0..(la.bucket_size - 1)) : la.c[n][p] # None}

\* The update insert delegates to subarray j took the overwrite branch.
UpdatesSubArray(j, key, value) ==
  LET arr == subarrays[j]
      r == SubArray_insert(arr, key, value, MaxProbes(delta))
  IN  /\ r.ret = "True"
      /\ r.arr.count = arr.count
      /\ OccupiedIn(r.arr.table) = OccupiedIn(arr.table)
      /\ \E pos \in OccupiedIn(arr.table) :
           arr.table[pos][1] = key /\ r.arr.table[pos] = <<key, value>>

\* The update insert delegates to the last array took an overwrite branch.
UpdatesLastArray(key, value) ==
  LET la == last_array[1]
      r == LastSubArray_insert(la, key, value)
  IN  /\ r.ret = "True"
      /\ r.la.count = la.count
      /\ OccupiedIn(r.la.b) = OccupiedIn(la.b)
      /\ OccupiedInC(r.la) = OccupiedInC(la)

\* C15: whenever the existence check of insert finds the key in a tier
\* through that tier's search and hands the update to that tier's insert
\* (with max_probes for a SubArray), the tier's insert takes its overwrite
\* branch: it returns True, occupies no new slot and leaves the tier's
\* _count as it was.
DelegatedUpdate ==
  \A key \in DOMAIN expected, value \in TierValues :
    LET h == FirstHit(key, 1) IN
    /\ h.kind = "hit" => UpdatesSubArray(h.idx, key, value)
    /\ ( /\ h.kind = "none"
         /\ last_array # <<>>
         /\ LastSubArray_search(last_array[1], key).val # NoneVal )
       => UpdatesLastArray(key, value)

\* A table with two subarrays after a successful insert, in which the
\* existence check finds one key in the second subarray behind a collision
\* and another key in a bucket of part C, and an insert of the first with a
\* new value changes that subarray but not _count.
DelegatedUpdateWitness ==
  /\ Len(subarrays) >= 2
  /\ lastOp.op = "insert" /\ lastOp.ret = "True"
  /\ \E key \in DOMAIN expected :
       /\ FirstHit(key, 1) = [kind |-> "hit", idx |-> 2]
       /\ subarrays[2].table[SubArray_hash(subarrays[2], key, 0)][1] # key
       /\ \E value \in TierValues :
            /\ insert(key, value).subarrays[2] # subarrays[2]
            /\ insert(key, value).count = count
  /\ \E key \in DOMAIN expected :
       /\ FirstHit(key, 1).kind = "none"
       /\ LastSubArray_search(last_array[1], key).val # NoneVal
       /\ BucketsOf(last_array[1], key) # {}

\* A step that is a search, or an insert that returned False.
NonMutatingStep ==
  \/ lastOp'.op = "search"
  \/ lastOp'.op = "insert" /\ lastOp'.ret = "False"

\* C16: every search, and every insert that returns False (refused at the
\* 0.9 mark, or no tier had a free probe position), leaves every slot of
\* every tier, every tier's _count and the table's _count unchanged.
Frame ==
  [][NonMutatingStep => UNCHANGED <<subarrays, last_array, count>>]_vars

\* An insert has just returned False below the 0.9 mark: the key's probe
\* positions in part B and both of its buckets are full.
FrameWitness ==
  /\ lastOp = [op |-> "insert", ret |-> "False", val |-> NoneVal]
  /\ 10 * count < 9 * initial_size
  /\ count >= 5
  /\ \E key \in DOMAIN expected :
       /\ expected[key] = Never
       /\ Arrives(key)
       /\ insert(key, MaxValue).ret = "False"

\* What insert(key, value, max_probes) is to do on a SubArray, given that
\* it returned r: overwrite a key that sits at one of the first max_probes
\* attempts, else fill the first empty one of those positions and count
\* it, else return False and change nothing.
InsertContract(arr, key, value, max_probes, r) ==
  LET attempts == 0..(max_probes - 1)
      holding == {a \in attempts :
                    /\ arr.table[SubArray_hash(arr, key, a)] # None
                    /\ arr.table[SubArray_hash(arr, key, a)][1] = key}
      empties == {a \in attempts :
                    arr.table[SubArray_hash(arr, key, a)] = None}
  IN  IF holding # {}
      THEN /\ r.ret = "True"
           /\ r.arr = [arr EXCEPT
                 !.table[SubArray_hash(arr, key, Least(holding))] = <<key, value>>]
      ELSE IF empties # {}
      THEN /\ r.ret = "True"
           /\ r.arr = [arr EXCEPT
                 !.table[SubArray_hash(arr, key, Least(empties))] = <<key, value>>,
                 !.count = @ + 1]
      ELSE r.ret = "False" /\ r.arr = arr

\* C17: SubArray.insert(key, value, max_probes), for any state of the tier
\* and any max_probes, returns True or False as InsertContract says:
\* overwrite without a change of _count, or first empty probe position with
\* _count + 1, or False with nothing changed exactly when none of the
\* max_probes positions is empty.
UniformInsert ==
  \A j \in 1..Len(subarrays) :
    \A key \in DOMAIN expected, value \in TierValues,
       max_probes \in 0..MaxProbesArg :
      LET r == SubArray_insert(subarrays[j], key, value, max_probes) IN
      /\ r.ret \in {"True", "False"}
      /\ InsertContract(subarrays[j], key, value, max_probes, r)

\* key sits in no slot of the LastSubArray.
NotStoredIn(la, key) ==
  /\ \A pos \in OccupiedIn(la.b) : la.b[pos][1] # key
  /\ \A np \in OccupiedInC(la) : la.c[np[1]][np[2]][1] # key

\* All max_attempts probe positions of key in part B are occupied and both
\* of its candidate buckets are full.
NoRoomFor(la, key) ==
  /\ \A attempt \in 0..(MaxAttempts(la) - 1) :
       la.b[hash_b(la, key, attempt)] # None
  /\ EmptyCount(la.c[hash_c(la, key)[1]]) = 0
  /\ EmptyCount(la.c[hash_c(la, key)[2]]) = 0

\* C18: LastSubArray.insert of a key that is not stored in it returns
\* False only when all max_attempts probe positions of part B are occupied
\* and both candidate buckets b1 and b2 are full; if one of those positions
\* or a slot of either bucket is empty, the insert succeeds.
TerminalInsertFailure ==
  last_array # <<>> =>
    \A key \in DOMAIN expected, value \in TierValues :
      NotStoredIn(last_array[1], key) =>
        LET r == LastSubArray_insert(last_array[1], key, value) IN
        /\ r.ret \in {"True", "False"}
        /\ r.ret = "False" <=> NoRoomFor(last_array[1], key)

\* C19: in every reachable state each tier's _count is at most its _size,
\* so that every tier's load_factor (_count / _size) is at most 1.
TierOccupancy ==
  /\ \A j \in 1..Len(subarrays) : subarrays[j].count <= subarrays[j].size
  /\ last_array # <<>> => last_array[1].count <= last_array[1].size

====
